---- MODULE Spec2Model ----
(***************************************************************************)
(* Bird Sound Flashcards: the deck session engine of src/src/App.tsx (the  *)
(* App component exported at the end of the file), with shuffleArray of    *)
(* src/src/utils/arrayUtils.ts, the audio element of                       *)
(* src/src/components/Flashcard.tsx and the search of                      *)
(* src/src/components/AllCardsView.tsx, and the players of the list view   *)
(* of that file (SpecCatalog).                                             *)
(*                                                                         *)
(* One action is one browser task: an event handler or a promise callback  *)
(* together with the render and the effects React runs before the next     *)
(* task.  The memoised values (filteredCards, currentCard) are operators   *)
(* over the state they depend on.                                          *)
(***************************************************************************)
EXTENDS Integers, Sequences, FiniteSets, TLC

\* ------------------------------------------------------------------ bounds
MaxCards == 2
MaxTasks == 2
MaxMalformed == 1
MaxListTasks == 3

Ids == 1..MaxCards
FilterModes == {"all", "unlearned", "learned", "starred"}

VARIABLES
    cards,                  \* useState<Card[]>: sequence of [id, learned, starred]
    currentFilteredIndex,   \* useState<number>, 0-based
    isFlipped,
    isLoading,
    error,                  \* TRUE when error !== null
    viewMode,               \* "study" | "viewAll"
    filterMode,
    isPlaying,
    audioPaused,            \* paused attribute of the <audio> audioRef.current points at
    playPromise,            \* the autoplay promise of that <audio>: "none" | "pending"
    strayPaused,            \* paused attribute of the <audio> elements that left the page
    tasks,                  \* queued media events and promise callbacks, FIFO
    storage,                \* localStorage[LOCAL_STORAGE_KEY]: set of [id, learned, starred]
    storageKind,            \* what is found under the key: see StorageKinds
    nonBoolean,             \* <<id, flag>> whose value is a non-boolean such as "yes"
    storageFails,           \* localStorage throws in this browser session
    currentlyPlayingId,     \* AllCardsView useState<string | null>: an id, 0 for null
    listPaused,             \* paused attribute of audioRefs.current[id], per id
    listPending,            \* ids whose <audio> has a play() promise pending
    listTasks               \* queued events and promise callbacks of the list's players

vars == <<cards, currentFilteredIndex, isFlipped, isLoading, error, viewMode,
          filterMode, isPlaying, audioPaused, playPromise, strayPaused,
          tasks, storage, storageKind, nonBoolean, storageFails,
          currentlyPlayingId, listPaused, listPending, listTasks>>

\* The state of AllCardsView, which App reads nothing of.
catalogVars == <<currentlyPlayingId, listPaused, listPending, listTasks>>

\* ------------------------------------------------------------- card values
\* A Card object.  occ tells apart the objects a manifest that repeats an
\* identifier yields (1 for the first card of an id, 2 for the second, ...): two
\* renders hold the same object exactly when the records are equal.
Card(i, n, l, s) == [id |-> i, occ |-> n, learned |-> l, starred |-> s]
NoCard == Card(0, 0, FALSE, FALSE)      \* currentCard === undefined / null

\* StoredCardStatus under its key
Status(i, l, s) == [id |-> i, learned |-> l, starred |-> s]

\* ------------------------------------------------------------ shuffleArray
\* Math.floor(Math.random() * (i + 1)) for every loop index i (0-based): one
\* choice j[i] in 0..i per index.
RandomChoices(n) == [1..(n - 1) -> 0..(n - 1)]

\* mutant: the swap writes one side only
Swap_oneSided(arr, a, b) == [arr EXCEPT ![a] = arr[b]]

Swap(arr, a, b) == [arr EXCEPT ![a] = arr[b], ![b] = arr[a]]

RECURSIVE shuffleLoop(_, _, _)
shuffleLoop(arr, i, js) ==
    IF i > 0 THEN shuffleLoop(Swap(arr, i + 1, js[i] + 1), i - 1, js)
             ELSE arr

shuffleArray(array, js) == shuffleLoop(array, Len(array) - 1, js)

ValidChoices(n) == {js \in RandomChoices(n) : \A i \in 1..(n - 1) : js[i] <= i}

\* ----------------------------------------------------------- derived state
\* mutant: 'unlearned' without the negation
MatchesFilter_noNegation(card, mode) ==
    CASE mode = "learned"   -> card.learned
      [] mode = "unlearned" -> card.learned
      [] mode = "starred"   -> card.starred
      [] OTHER              -> TRUE

MatchesFilter(card, mode) ==
    CASE mode = "learned"   -> card.learned
      [] mode = "unlearned" -> ~card.learned
      [] mode = "starred"   -> card.starred
      [] OTHER              -> TRUE

filteredCardsOf(cs, mode) == SelectSeq(cs, LAMBDA c : MatchesFilter(c, mode))

filteredCards == filteredCardsOf(cards, filterMode)

currentCardOf(cs, mode, idx) ==
    LET fc == filteredCardsOf(cs, mode)
    IN  IF Len(fc) = 0 \/ idx >= Len(fc) THEN NoCard ELSE fc[idx + 1]

currentCard == currentCardOf(cards, filterMode, currentFilteredIndex)

\* audioRef.current is non-null exactly when the Flashcard is rendered: the
\* main content is rendered, in study mode, with a current card (its audioSrc
\* is then non-null and the card renders its <audio>).
AudioMountedOf(loading, err, mode, card) ==
    ~loading /\ ~err /\ mode = "study" /\ card # NoCard

AudioMounted == AudioMountedOf(isLoading, error, viewMode, currentCard)

\* --------------------------------------------------------- task queue items
\* Tasks queued for the App, run in order:
\*   "play"          play event of the mounted <audio>            (onPlay)
\*   "pause"         pause event of the mounted <audio>           (onPause)
\*   "pauseReject"   the same, and the autoplay promise rejects   (onPause, catch)
\*   "ended"         end of the clip: the element pauses itself   (onPause, onEnded)
\*   "resolved"      the autoplay promise of the mounted element resolves (then)
\*   "staleResolved" / "staleRejected"   the autoplay promise of an <audio>
\*                   that left the page resolves / rejects          (then / catch)
TaskKinds == {"play", "pause", "pauseReject", "ended", "resolved",
              "staleResolved", "staleRejected"}

SetsPlaying(t) == t \in {"play", "resolved", "staleResolved"}

\* The <audio> leaves the page: its events reach no handler any more, the
\* callbacks of its autoplay promise still run.
RECURSIVE Detached(_)
Detached(q) ==
    IF q = <<>> THEN <<>>
    ELSE LET t == Head(q)
             rest == Detached(Tail(q))
         IN  CASE t = "pauseReject" -> <<"staleRejected">> \o rest
               [] t = "resolved"    -> <<"staleResolved">> \o rest
               [] t \in {"play", "pause", "ended"} -> rest
               [] OTHER -> <<t>> \o rest

\* load() on the mounted <audio> removes its queued tasks (a promise such a
\* task would settle is settled at once); callbacks of other elements stay.
Loaded(q) == SelectSeq(q, LAMBDA t : t \in {"staleResolved", "staleRejected"})

Contains(q, t) == \E i \in 1..Len(q) : q[i] = t

\* ------------------------------------------------------------ localStorage
\* cards.reduce((acc, card) => { acc[card.id] = {...}; return acc }, {}):
\* one entry per id, a later card of the same id overwrites an earlier one.
statusesToSave(cs) ==
    { Status(cs[i].id, cs[i].learned, cs[i].starred) :
        i \in { k \in 1..Len(cs) : \A m \in (k + 1)..Len(cs) : cs[m].id # cs[k].id } }

\* mutant: the effect writes the cards of the render before
SaveStatuses_stale(loading, cs) ==
    IF loading \/ Len(cs) = 0 \/ storageFails THEN storage ELSE statusesToSave(cards)

\* mutant: the write keeps the stored entries of ids that have no card
SaveStatuses_keepsAbsent(loading, cs) ==
    IF loading \/ Len(cs) = 0 \/ storageFails THEN storage
    ELSE statusesToSave(cs)
            \cup { x \in storage : \A k \in 1..Len(cs) : cs[k].id # x.id }

\* mutant: the effect has no guard
SaveStatuses_unguarded(loading, cs) ==
    IF storageFails THEN storage ELSE statusesToSave(cs)

\* The save effect: skipped while loading or with no cards; setItem may throw,
\* which is caught and logged.
SaveStatuses(loading, cs) ==
    IF loading \/ Len(cs) = 0 \/ storageFails THEN storage ELSE statusesToSave(cs)

\* What localStorage.getItem(LOCAL_STORAGE_KEY) meets:
\*   "absent"      no item (null)
\*   "unparsable"  an item JSON.parse throws on
\*   "nonObject"   an item that parses to a number, a string, a boolean or null
\*   "object"      an item that parses to an object: its entries are storage
\*   "unreadable"  getItem itself throws
StorageKinds == {"absent", "unparsable", "nonObject", "object", "unreadable"}

\* JSON.stringify(statusesToSave) under the key: an object from then on.
SavedKind(loading, cs) ==
    IF loading \/ Len(cs) = 0 \/ storageFails THEN storageKind ELSE "object"

\* let savedStatuses = {}; the parsed item if it is an object; {} after the
\* reset of a non-object and after the catch.
savedStatuses == IF storageKind = "object" THEN storage ELSE {}

\* Contents the storage key can hold: at most one entry per id.
StoredInputs ==
    { st \in SUBSET { Status(i, l, s) : i \in Ids, l \in BOOLEAN, s \in BOOLEAN } :
        \A x \in st, y \in st : x.id = y.id => x = y }

\* A stored learned or starred value need not be a boolean.  Status and Card
\* hold the truthiness of the value; nonBoolean names the values that are a
\* truthy non-boolean such as "yes", under the key and, once loaded, in the
\* cards of that id.  Inputs: contents of at most MaxMalformed entries.
NonBooleanInputs(st) ==
    IF Cardinality(st) > MaxMalformed THEN {{}}
    ELSE SUBSET ({ <<x.id, "learned">> : x \in { y \in st : y.learned } }
                    \cup { <<x.id, "starred">> : x \in { y \in st : y.starred } })

HasCard(cs, i) == \E k \in 1..Len(cs) : cs[k].id = i

\* savedStatus?.learned ?? false hands a non-boolean on to the card, and the
\* save effect writes the cards' values back: what stays non-boolean after
\* the load are the values of the ids that got a card.
loadedNonBoolean(cs) ==
    IF Len(cs) = 0 \/ storageFails THEN nonBoolean
    ELSE { p \in nonBoolean : HasCard(cs, p[1]) }

\* !card.learned / !card.starred is a boolean
toggledNonBoolean(cs, idToToggle, flag) ==
    IF HasCard(cs, idToToggle) THEN nonBoolean \ {<<idToToggle, flag>>} ELSE nonBoolean

\* ---------------------------------------------------------------- initial
\* useState initial values; no <audio> exists before the first card renders.
\* Where localStorage throws, getItem does as setItem does.
Init ==
    /\ cards = <<>>
    /\ currentFilteredIndex = 0
    /\ isFlipped = FALSE
    /\ isLoading = TRUE
    /\ error = FALSE
    /\ viewMode = "study"
    /\ filterMode = "all"
    /\ isPlaying = FALSE
    /\ audioPaused = TRUE
    /\ playPromise = "none"
    /\ strayPaused = TRUE
    /\ tasks = <<>>
    /\ storageFails \in BOOLEAN
    /\ storageKind \in (IF storageFails THEN {"unreadable"}
                                         ELSE StorageKinds \ {"unreadable"})
    /\ storage \in (IF storageKind = "object" THEN StoredInputs ELSE {{}})
    /\ nonBoolean \in NonBooleanInputs(storage)
    /\ currentlyPlayingId = 0
    /\ listPaused = [i \in Ids |-> TRUE]
    /\ listPending = {}
    /\ listTasks = <<>>

\* ------------------------------------------------- render and effects
\* mutant: the <audio> that leaves the page is left as it was
pausedOnLeave_keepsPlaying(paused) == paused

\* paused attribute of an <audio> once it has left the page: the cleanup of
\* the autoplay effect calls pause() on the element the effect captured, and
\* the browser pauses an element removed from the document (this also covers
\* the switch to the list, where currentCard stays and no cleanup runs).
pausedOnLeave(paused) == TRUE

\* mutant: the pause on the wrong face
flipEffectPauses_wrongFace(wasFlipped, nowFlipped, mounted) ==
    nowFlipped # wasFlipped /\ ~nowFlipped /\ mounted

\* useEffect(..., [isFlipped]): runs when isFlipped changed, and calls
\* audioRef.current.pause() when the card now shows its back.
flipEffectPauses(wasFlipped, nowFlipped, mounted) ==
    nowFlipped # wasFlipped /\ nowFlipped /\ mounted

\* What React does after a handler has set cards', currentFilteredIndex',
\* filterMode', viewMode', isLoading' and error': the DOM commit (the Flashcard
\* is keyed by the card id, so another id or no card replaces the <audio>; an
\* <audio> removed from the document is paused by the browser), the autoplay
\* effect with its cleanup when currentCard changed, and the effect on
\* isFlipped.  flipH is isFlipped as the handler left it; allowed is whether
\* the browser lets the autoplay start.
CommitWith(flipH, allowed) ==
    LET oldCC == currentCard
        newCC == currentCardOf(cards', filterMode', currentFilteredIndex')
        newMounted == AudioMountedOf(isLoading', error', viewMode', newCC)
        sameEl == AudioMounted /\ newMounted /\ oldCC.id = newCC.id
        detach == AudioMounted /\ ~sameEl
        pend == playPromise = "pending"
        \* the removed element is paused: its pending play() rejects in a later task
        q1 == IF detach
              THEN (IF pend THEN Append(Detached(tasks), "staleRejected")
                            ELSE Detached(tasks))
              ELSE tasks
        paused1 == IF sameEl THEN audioPaused ELSE TRUE
        promise1 == IF sameEl THEN playPromise ELSE "none"
        changed == newCC # oldCC
        \* load() settles a queued resolution of the same element at once: the
        \* then-callback runs after the effect, before the new promise's catch
        earlyThen == sameEl /\ Contains(tasks, "resolved")
        flipPause == flipEffectPauses(isFlipped, flipH, newMounted) /\ ~paused1
    IN  /\ strayPaused' = IF detach THEN strayPaused /\ pausedOnLeave(audioPaused)
                                     ELSE strayPaused
        /\ IF changed
            THEN /\ isFlipped' = FALSE
                 /\ tasks' = IF newMounted /\ allowed THEN Append(Loaded(q1), "play")
                                                     ELSE Loaded(q1)
                 /\ IF newMounted /\ allowed
                    THEN /\ audioPaused' = FALSE
                         /\ playPromise' = "pending"
                         /\ isPlaying' = earlyThen
                    ELSE /\ audioPaused' = TRUE
                         /\ playPromise' = "none"
                         /\ isPlaying' = FALSE
            ELSE /\ isFlipped' = flipH
                 /\ isPlaying' = isPlaying
                 /\ audioPaused' = IF flipPause THEN TRUE ELSE paused1
                 /\ playPromise' = IF flipPause THEN "none" ELSE promise1
                 /\ tasks' = IF flipPause
                             THEN Append(q1, IF promise1 = "pending" THEN "pauseReject"
                                                                      ELSE "pause")
                             ELSE q1

\* mutant: the effect depends on the card id only
AutoplayAttempted_idOnly ==
    LET newCC == currentCardOf(cards', filterMode', currentFilteredIndex')
    IN  newCC.id # currentCard.id /\ AudioMountedOf(isLoading', error', viewMode', newCC)

\* An autoplay is attempted when currentCard changed and an <audio> is mounted;
\* whether the browser allows it is the browser's choice.
AutoplayAttempted ==
    LET newCC == currentCardOf(cards', filterMode', currentFilteredIndex')
    IN  newCC # currentCard /\ AudioMountedOf(isLoading', error', viewMode', newCC)

Commit(flipH) ==
    \E allowed \in (IF AutoplayAttempted THEN BOOLEAN ELSE {FALSE}) :
        CommitWith(flipH, allowed)

\* The queue is bounded: a step that would overfill it is not taken.
QueueFits == Len(tasks') <= MaxTasks

\* The controls are rendered once loading is over without an error.
ControlsRendered == ~isLoading /\ ~error
StudyRendered == ControlsRendered /\ viewMode = "study"

\* --------------------------------------------------- fetchAndInitialize
\* What the two fetches can deliver: a manifest (list of identifiers, which may
\* repeat one) and the set of identifiers the mapping has an entry for.
RECURSIVE SeqsUpTo(_, _)
SeqsUpTo(S, n) ==
    IF n = 0 THEN {<<>>}
    ELSE LET shorter == SeqsUpTo(S, n - 1)
         IN  shorter \cup { Append(q, x) : q \in { r \in shorter : Len(r) = n - 1 }, x \in S }

Manifests == SeqsUpTo(Ids, MaxCards)
Mappings == SUBSET Ids

\* What the two bodies can parse to.  The manifest: an array of strings, an
\* array with an item that is not a string, or no array.  The mapping: an
\* object, an array, null, or a number, string or boolean.
ManifestShapes == {"strings", "mixed", "notArray"}
MappingShapes == {"object", "array", "null", "primitive"}

\* The validation of manifest and mapping:
\*   !Array.isArray(audioFilenames) || audioFilenames.some(item => typeof item !== 'string')
\*   typeof birdMapping !== 'object' || birdMapping === null
\* throw; typeof of an array is 'object'.
ShapesAccepted(manifestShape, mappingShape) ==
    /\ manifestShape = "strings"
    /\ mappingShape \in {"object", "array"}

\* The identifiers birdMapping[audioFilename] finds an entry for: an array
\* has none under a file name.
MappingsOf(mappingShape) == IF mappingShape = "object" THEN Mappings ELSE {{}}

\* savedStatus?.learned ?? false
SavedLearned(st, i) ==
    IF \E x \in st : x.id = i THEN (CHOOSE x \in st : x.id = i).learned ELSE FALSE
\* mutant: starred read from the learned value
SavedStarred_fromLearned(st, i) ==
    IF \E x \in st : x.id = i THEN (CHOOSE x \in st : x.id = i).learned ELSE FALSE

SavedStarred(st, i) ==
    IF \E x \in st : x.id = i THEN (CHOOSE x \in st : x.id = i).starred ELSE FALSE

\* mutant: an identifier without mapping entry gets a card all the same
initialCards_keepsUnmapped(audioFilenames, birdMapping, st) ==
    [ i \in 1..Len(audioFilenames) |->
        Card(audioFilenames[i],
             Cardinality({ k \in 1..i : audioFilenames[k] = audioFilenames[i] }),
             SavedLearned(st, audioFilenames[i]),
             SavedStarred(st, audioFilenames[i])) ]

\* audioFilenames.map(...) with null for an identifier without mapping entry,
\* then .filter(card => card !== null)
initialCards(audioFilenames, birdMapping, st) ==
    LET initialCardsWithNulls ==
            [ i \in 1..Len(audioFilenames) |->
                IF audioFilenames[i] \in birdMapping
                THEN Card(audioFilenames[i],
                          Cardinality({ k \in 1..i : audioFilenames[k] = audioFilenames[i] }),
                          SavedLearned(st, audioFilenames[i]),
                          SavedStarred(st, audioFilenames[i]))
                ELSE NoCard ]
    IN  SelectSeq(initialCardsWithNulls, LAMBDA c : c # NoCard)

\* mutant: an empty result is reported as an error
LoadSuccess_emptyIsError(audioFilenames, birdMapping, js) ==
    /\ isLoading
    /\ cards' = shuffleArray(initialCards(audioFilenames, birdMapping, savedStatuses), js)
    /\ currentFilteredIndex' = 0
    /\ isLoading' = FALSE
    /\ error' = (Len(cards') = 0)
    /\ UNCHANGED <<viewMode, filterMode, storageFails, catalogVars>>
    /\ storage' = SaveStatuses(FALSE, cards')
    /\ storageKind' = SavedKind(FALSE, cards')
    /\ nonBoolean' = loadedNonBoolean(cards')
    /\ Commit(FALSE)
    /\ QueueFits

\* Both fetches answered and parsed: cards built, shuffled and set.
LoadSuccess(audioFilenames, birdMapping, js) ==
    /\ isLoading
    /\ cards' = shuffleArray(initialCards(audioFilenames, birdMapping, savedStatuses), js)
    /\ currentFilteredIndex' = 0
    /\ isLoading' = FALSE
    /\ UNCHANGED <<error, viewMode, filterMode, storageFails, catalogVars>>
    /\ storage' = SaveStatuses(FALSE, cards')
    /\ storageKind' = SavedKind(FALSE, cards')
    /\ nonBoolean' = loadedNonBoolean(cards')
    /\ Commit(FALSE)
    /\ QueueFits

\* A fetch rejected, answered non-OK, or the body did not parse: the catch.
LoadFailure ==
    /\ isLoading
    /\ error' = TRUE
    /\ cards' = <<>>
    /\ isLoading' = FALSE
    /\ UNCHANGED <<currentFilteredIndex, viewMode, filterMode, nonBoolean, storageFails,
                   catalogVars>>
    /\ storage' = SaveStatuses(FALSE, cards')
    /\ storageKind' = SavedKind(FALSE, cards')
    /\ Commit(isFlipped)
    /\ QueueFits

\* ------------------------------------------------------------- handlers
handleFlip ==
    /\ StudyRendered
    /\ IF currentCard = NoCard
       THEN UNCHANGED vars
       ELSE /\ UNCHANGED <<cards, currentFilteredIndex, isLoading, error, viewMode,
                           filterMode, storage, storageKind, nonBoolean,
                           storageFails, catalogVars>>
            /\ Commit(~isFlipped)
            /\ QueueFits

\* mutant: no wrap at the end of the view
nextIndex_noWrap(prevIndex, len) == prevIndex + 1

\* prevIndex => (prevIndex + 1) % filteredCards.length
nextIndex(prevIndex, len) == (prevIndex + 1) % len

\* mutant: the length is added but the remainder is not taken
previousIndex_noMod(prevIndex, len) == prevIndex - 1 + len

\* prevIndex => (prevIndex - 1 + filteredCards.length) % filteredCards.length
previousIndex(prevIndex, len) == (prevIndex - 1 + len) % len

handleNext ==
    /\ StudyRendered
    /\ IF Len(filteredCards) = 0
       THEN UNCHANGED vars
       ELSE /\ currentFilteredIndex' = nextIndex(currentFilteredIndex, Len(filteredCards))
            /\ UNCHANGED <<cards, isLoading, error, viewMode, filterMode, storage,
                           storageKind, nonBoolean, storageFails, catalogVars>>
            /\ Commit(isFlipped)
            /\ QueueFits

handlePrevious ==
    /\ StudyRendered
    /\ IF Len(filteredCards) = 0
       THEN UNCHANGED vars
       ELSE /\ currentFilteredIndex' =
                   previousIndex(currentFilteredIndex, Len(filteredCards))
            /\ UNCHANGED <<cards, isLoading, error, viewMode, filterMode, storage,
                           storageKind, nonBoolean, storageFails, catalogVars>>
            /\ Commit(isFlipped)
            /\ QueueFits

\* mutant: sets the flag instead of flipping it
toggleLearnedIn_sets(cs, idToToggle) ==
    [ i \in 1..Len(cs) |->
        IF cs[i].id = idToToggle THEN [cs[i] EXCEPT !.learned = TRUE] ELSE cs[i] ]

toggleLearnedIn(cs, idToToggle) ==
    [ i \in 1..Len(cs) |->
        IF cs[i].id = idToToggle THEN [cs[i] EXCEPT !.learned = ~cs[i].learned] ELSE cs[i] ]

\* mutant: the toggle of starred flips learned as well
toggleStarredIn_both(cs, idToToggle) ==
    [ i \in 1..Len(cs) |->
        IF cs[i].id = idToToggle
        THEN [cs[i] EXCEPT !.starred = ~cs[i].starred, !.learned = ~cs[i].learned]
        ELSE cs[i] ]

toggleStarredIn(cs, idToToggle) ==
    [ i \in 1..Len(cs) |->
        IF cs[i].id = idToToggle THEN [cs[i] EXCEPT !.starred = ~cs[i].starred] ELSE cs[i] ]

\* How handleToggleLearned / handleToggleStarred end: they look no card up and
\* throw nothing; an id that matches no card maps every card to itself.
toggleOutcome(cs, idToToggle) == "done"

\* prevCards.map(...) hands setCards a new array whether or not an id matched,
\* so the save effect (deps [cards, isLoading]) runs after every toggle; it
\* calls setItem unless loading or without cards.
toggleCallsSetItem(loading, cs) == ~loading /\ Len(cs) # 0

\* The study card offers the toggles for currentCard.id; the list view for any id.
ToggleOffered(idToToggle) ==
    /\ ControlsRendered
    /\ viewMode = "study" => (currentCard # NoCard /\ idToToggle = currentCard.id)

\* mutant: a write that throws puts the session into the error state
handleToggleLearned_failureIsError(idToToggle) ==
    /\ ToggleOffered(idToToggle)
    /\ cards' = toggleLearnedIn(cards, idToToggle)
    /\ error' = storageFails
    /\ UNCHANGED <<currentFilteredIndex, isLoading, viewMode, filterMode, storageFails,
                   catalogVars>>
    /\ storage' = SaveStatuses(isLoading, cards')
    /\ storageKind' = SavedKind(isLoading, cards')
    /\ nonBoolean' = toggledNonBoolean(cards, idToToggle, "learned")
    /\ Commit(isFlipped)
    /\ QueueFits

handleToggleLearned(idToToggle) ==
    /\ ToggleOffered(idToToggle)
    /\ cards' = toggleLearnedIn(cards, idToToggle)
    /\ UNCHANGED <<currentFilteredIndex, isLoading, error, viewMode, filterMode,
                   storageFails, catalogVars>>
    /\ storage' = SaveStatuses(isLoading, cards')
    /\ storageKind' = SavedKind(isLoading, cards')
    /\ nonBoolean' = toggledNonBoolean(cards, idToToggle, "learned")
    /\ Commit(isFlipped)
    /\ QueueFits

handleToggleStarred(idToToggle) ==
    /\ ToggleOffered(idToToggle)
    /\ cards' = toggleStarredIn(cards, idToToggle)
    /\ UNCHANGED <<currentFilteredIndex, isLoading, error, viewMode, filterMode,
                   storageFails, catalogVars>>
    /\ storage' = SaveStatuses(isLoading, cards')
    /\ storageKind' = SavedKind(isLoading, cards')
    /\ nonBoolean' = toggledNonBoolean(cards, idToToggle, "starred")
    /\ Commit(isFlipped)
    /\ QueueFits

\* mutant: no early return for fewer than two cards
handleShuffle_unguarded(js) ==
    /\ StudyRendered
    /\ cards' = shuffleArray(cards, js)
    /\ currentFilteredIndex' = 0
    /\ UNCHANGED <<isLoading, error, viewMode, filterMode, nonBoolean, storageFails,
                   catalogVars>>
    /\ storage' = SaveStatuses(isLoading, cards')
    /\ storageKind' = SavedKind(isLoading, cards')
    /\ Commit(FALSE)
    /\ QueueFits

\* if (cards.length <= 1) return; the new order, index 0, front face
handleShuffle(js) ==
    /\ StudyRendered
    /\ IF Len(cards) <= 1
       THEN UNCHANGED vars
       ELSE /\ cards' = shuffleArray(cards, js)
            /\ currentFilteredIndex' = 0
            /\ UNCHANGED <<isLoading, error, viewMode, filterMode, nonBoolean,
                           storageFails, catalogVars>>
            /\ storage' = SaveStatuses(isLoading, cards')
            /\ storageKind' = SavedKind(isLoading, cards')
            /\ Commit(FALSE)
            /\ QueueFits

\* mutant: the switch also resets the filter and the index
handleToggleView_resetsFilter ==
    /\ ControlsRendered
    /\ viewMode' = IF viewMode = "study" THEN "viewAll" ELSE "study"
    /\ filterMode' = "all"
    /\ currentFilteredIndex' = 0
    /\ UNCHANGED <<cards, isLoading, error, storage, storageKind, nonBoolean,
                   storageFails, catalogVars>>
    /\ Commit(FALSE)
    /\ QueueFits

\* setViewMode(prev => other); setIsFlipped(false)
handleToggleView ==
    /\ ControlsRendered
    /\ viewMode' = IF viewMode = "study" THEN "viewAll" ELSE "study"
    /\ UNCHANGED <<cards, currentFilteredIndex, isLoading, error, filterMode, storage,
                   storageKind, nonBoolean, storageFails, catalogVars>>
    /\ Commit(FALSE)
    /\ QueueFits

\* mutant: the index is not reset
setFilterResult_keepsIndex(newMode) ==
    IF newMode # filterMode
    THEN [filterMode |-> newMode, index |-> currentFilteredIndex, isFlipped |-> FALSE]
    ELSE [filterMode |-> filterMode, index |-> currentFilteredIndex,
          isFlipped |-> isFlipped]

\* mutant: resets without comparing with the active filter
setFilterResult_always(newMode) ==
    [filterMode |-> newMode, index |-> 0, isFlipped |-> FALSE]

\* What handleSetFilterMode leaves in filterMode, currentFilteredIndex and
\* isFlipped: set only if (newMode !== filterMode).
setFilterResult(newMode) ==
    IF newMode # filterMode
    THEN [filterMode |-> newMode, index |-> 0, isFlipped |-> FALSE]
    ELSE [filterMode |-> filterMode, index |-> currentFilteredIndex,
          isFlipped |-> isFlipped]

handleSetFilterMode(newMode) ==
    /\ StudyRendered
    /\ filterMode' = setFilterResult(newMode).filterMode
    /\ currentFilteredIndex' = setFilterResult(newMode).index
    /\ UNCHANGED <<cards, isLoading, error, viewMode, storage, storageKind,
                   nonBoolean, storageFails, catalogVars>>
    /\ Commit(setFilterResult(newMode).isFlipped)
    /\ QueueFits

\* audioRef.current.pause(): a playing element becomes paused; its pause event,
\* and with it the rejection of a pending play(), is queued.
PauseMounted ==
    /\ audioPaused' = TRUE
    /\ tasks' = IF audioPaused THEN tasks
                ELSE IF playPromise = "pending" THEN Append(tasks, "pauseReject")
                     ELSE Append(tasks, "pause")
    /\ playPromise' = "none"

\* audioRef.current.play() from a click: a paused element starts and its play
\* event is queued; a refused play() only logs.
PlayMounted ==
    /\ \E allowed \in (IF audioPaused THEN BOOLEAN ELSE {TRUE}) :
         /\ audioPaused' = IF allowed THEN FALSE ELSE audioPaused
         /\ tasks' = IF allowed /\ audioPaused THEN Append(tasks, "play") ELSE tasks
    /\ UNCHANGED playPromise

togglePlayPause ==
    /\ StudyRendered
    /\ IF ~AudioMounted
       THEN UNCHANGED vars
       ELSE /\ IF isPlaying THEN PauseMounted ELSE PlayMounted
            /\ UNCHANGED <<cards, currentFilteredIndex, isFlipped, isLoading, error,
                           viewMode, filterMode, isPlaying, strayPaused, storage,
                           storageKind, nonBoolean, storageFails, catalogVars>>
            /\ QueueFits

\* mutant: a refused play() puts the session into the error state
handleReplay_refusalIsError ==
    /\ StudyRendered
    /\ AudioMounted
    /\ PlayMounted
    /\ error' = (audioPaused /\ audioPaused')
    /\ UNCHANGED <<cards, currentFilteredIndex, isFlipped, isLoading,
                   viewMode, filterMode, isPlaying, strayPaused, storage, storageKind,
                   nonBoolean, storageFails, catalogVars>>
    /\ QueueFits

\* Flashcard.handleReplay: currentTime = 0; play()
handleReplay ==
    /\ StudyRendered
    /\ AudioMounted
    /\ PlayMounted
    /\ UNCHANGED <<cards, currentFilteredIndex, isFlipped, isLoading, error,
                   viewMode, filterMode, isPlaying, strayPaused, storage, storageKind,
                   nonBoolean, storageFails, catalogVars>>
    /\ QueueFits

\* ------------------------------------------------- browser and audio tasks
\* The head of the queue runs: handleAudioPlay, handleAudioPause,
\* handleAudioEnded, or the then / catch of an autoplay promise.
DeliverTask ==
    /\ Len(tasks) > 0
    /\ isPlaying' = SetsPlaying(Head(tasks))
    /\ audioPaused' = IF Head(tasks) = "ended" THEN TRUE ELSE audioPaused
    /\ tasks' = Tail(tasks)
    /\ UNCHANGED <<cards, currentFilteredIndex, isFlipped, isLoading, error, viewMode,
                   filterMode, playPromise, strayPaused, storage, storageKind,
                   nonBoolean, storageFails, catalogVars>>

\* Playback of the element the autoplay was started on begins: its promise
\* resolves in a queued task.
AutoplayStarted ==
    /\ playPromise = "pending"
    /\ playPromise' = "none"
    /\ tasks' = Append(tasks, "resolved")
    /\ UNCHANGED <<cards, currentFilteredIndex, isFlipped, isLoading, error, viewMode,
                   filterMode, isPlaying, audioPaused, strayPaused, storage,
                   storageKind, nonBoolean, storageFails, catalogVars>>
    /\ QueueFits

\* The clip of the mounted element reaches its end: a task is queued that
\* pauses the element and fires pause and ended.
AudioEnded ==
    /\ AudioMounted
    /\ ~audioPaused
    /\ ~Contains(tasks, "ended")
    /\ playPromise # "pending"
    /\ tasks' = Append(tasks, "ended")
    /\ UNCHANGED <<cards, currentFilteredIndex, isFlipped, isLoading, error, viewMode,
                   filterMode, isPlaying, audioPaused, playPromise, strayPaused,
                   storage, storageKind, nonBoolean, storageFails, catalogVars>>
    /\ QueueFits

\* ------------------------------------------------- AllCardsView: search
\* searchQuery as typed into the search field: nothing, or one space.
Queries == {"", " "}

\* displayName comes with the mapping entry.  Here the bird of identifier 1 has
\* a name of one word ("Mallard"), every other a name of two ("Common
\* Blackbird").
NameHasSpace(i) == i # 1

\* The orders a sequence can be put in.
Orders(q) ==
    { [ k \in 1..Len(q) |-> q[f[k]] ] :
        f \in { g \in [1..Len(q) -> 1..Len(q)] :
                   \A a \in 1..Len(q), b \in 1..Len(q) : g[a] = g[b] => a = b } }

\* fuse.search(searchQuery).map(result => result.item), Fuse built over cards
\* with keys ['displayName'] and threshold 0.3: the pattern of one space is
\* found in the names that hold a space and in no other (a pattern of one
\* character that the name lacks scores 1); the items come ordered by score,
\* which is left open here.
fuseSearch(query, cs) == Orders(SelectSeq(cs, LAMBDA c : NameHasSpace(c.id)))

\* mutant: the list is given the filtered cards
displayCards_filtered(searchQuery, cs) ==
    IF searchQuery = "" THEN {filteredCardsOf(cs, filterMode)}
                        ELSE fuseSearch(searchQuery, filteredCardsOf(cs, filterMode))

\* displayCards: if (!searchQuery) return cards; else the search result
displayCards(searchQuery, cs) ==
    IF searchQuery = "" THEN {cs} ELSE fuseSearch(searchQuery, cs)

\* ------------------------------------------------- AllCardsView: players
\* The list renders one <audio> per card, kept in audioRefs.current by id, with
\* onPause and onEnded handlers and none for play.  Tasks queued for the list:
\*   "resolved"  a play() promise resolves: then(() => setCurrentlyPlayingId(id))
\*   "rejected"  a play() promise rejects: catch(() => setCurrentlyPlayingId(null))
\*   "pause"     pause event of the <audio> of id: handleAudioEndedOrPaused(id)
\*   "ended"     end of the clip: the element pauses itself, pause and ended fire
ListTaskKinds == {"resolved", "rejected", "pause", "ended"}

ListTask(k, i) == [kind |-> k, id |-> i]

appVars == <<cards, currentFilteredIndex, isFlipped, isLoading, error, viewMode,
             filterMode, isPlaying, audioPaused, playPromise, strayPaused,
             tasks, storage, storageKind, nonBoolean, storageFails>>

\* The list is rendered: the list view of a session that has cards.
ListRendered == ControlsRendered /\ viewMode = "viewAll" /\ Len(cards) > 0

ListQueueFits == Len(listTasks') <= MaxListTasks

\* audioRefs.current[id].pause() on players [paused, pending, tasks]: a playing
\* element becomes paused, its pause event is queued, and after it the
\* rejection of its pending play() promise.
pausedPlayers(pl, id) ==
    IF pl.paused[id] THEN pl
    ELSE [paused  |-> [pl.paused EXCEPT ![id] = TRUE],
          pending |-> pl.pending \ {id},
          tasks   |-> IF id \in pl.pending
                      THEN pl.tasks \o <<ListTask("pause", id), ListTask("rejected", id)>>
                      ELSE Append(pl.tasks, ListTask("pause", id))]

players == [paused |-> listPaused, pending |-> listPending, tasks |-> listTasks]

\* pauseAudio(id)
pauseAudio(id) ==
    /\ listPaused' = pausedPlayers(players, id).paused
    /\ listPending' = pausedPlayers(players, id).pending
    /\ listTasks' = pausedPlayers(players, id).tasks
    /\ UNCHANGED currentlyPlayingId

\* playAudio(id): pauses the player currentlyPlayingId names, if it names
\* another one, then calls play() on the player of id; a play() refused at once
\* runs the catch before the next task.
playAudio(id) ==
    LET cur == currentlyPlayingId
        pl == IF cur # 0 /\ cur # id /\ HasCard(cards, cur)
              THEN pausedPlayers(players, cur) ELSE players
    IN  \E allowed \in (IF pl.paused[id] THEN BOOLEAN ELSE {TRUE}) :
          /\ listTasks' = pl.tasks
          /\ IF allowed
             THEN /\ listPaused' = [pl.paused EXCEPT ![id] = FALSE]
                  /\ listPending' = pl.pending \cup {id}
                  /\ UNCHANGED currentlyPlayingId
             ELSE /\ listPaused' = pl.paused
                  /\ listPending' = pl.pending
                  /\ currentlyPlayingId' = 0

\* handlePlayPause(id), the click on the play button of the card of id
handlePlayPause(id) ==
    /\ ListRendered
    /\ HasCard(cards, id)
    /\ IF currentlyPlayingId = id THEN pauseAudio(id) ELSE playAudio(id)
    /\ UNCHANGED appVars
    /\ ListQueueFits

\* Playback of a player with a pending play() begins: its promise resolves in
\* a queued task.
ListPlaybackStarted(id) ==
    /\ ListRendered
    /\ id \in listPending
    /\ listPending' = listPending \ {id}
    /\ listTasks' = Append(listTasks, ListTask("resolved", id))
    /\ UNCHANGED <<currentlyPlayingId, listPaused, appVars>>
    /\ ListQueueFits

\* The clip of a playing player reaches its end.
ListAudioEnded(id) ==
    /\ ListRendered
    /\ ~listPaused[id]
    /\ id \notin listPending
    /\ \A k \in 1..Len(listTasks) : listTasks[k] # ListTask("ended", id)
    /\ listTasks' = Append(listTasks, ListTask("ended", id))
    /\ UNCHANGED <<currentlyPlayingId, listPaused, listPending, appVars>>
    /\ ListQueueFits

\* handleAudioEndedOrPaused(id): if (currentlyPlayingId === id) clear it
handleAudioEndedOrPaused(cur, id) == IF cur = id THEN 0 ELSE cur

\* The head of the list's queue runs.
DeliverListTask ==
    /\ ListRendered
    /\ Len(listTasks) > 0
    /\ LET t == Head(listTasks)
       IN  /\ currentlyPlayingId' =
                 CASE t.kind = "resolved" -> t.id
                   [] t.kind = "rejected" -> 0
                   [] OTHER -> handleAudioEndedOrPaused(currentlyPlayingId, t.id)
           /\ listPaused' = IF t.kind = "ended" THEN [listPaused EXCEPT ![t.id] = TRUE]
                                                ELSE listPaused
    /\ listTasks' = Tail(listTasks)
    /\ UNCHANGED <<listPending, appVars>>

\* ------------------------------------------------------------------- spec
\* Both fetches answered OK and both bodies parsed, to these shapes.
fetchAndInitialize(manifestShape, mappingShape) ==
    IF ShapesAccepted(manifestShape, mappingShape)
    THEN \E m \in Manifests, bm \in MappingsOf(mappingShape) :
           \E js \in ValidChoices(Len(initialCards(m, bm, savedStatuses))) :
              LoadSuccess(m, bm, js)
    ELSE LoadFailure

Load ==
    \/ \E manifestShape \in ManifestShapes, mappingShape \in MappingShapes :
         fetchAndInitialize(manifestShape, mappingShape)
    \/ LoadFailure

Navigate == handleNext \/ handlePrevious

Toggle == \E i \in Ids : handleToggleLearned(i) \/ handleToggleStarred(i)

Shuffle == \E js \in ValidChoices(Len(cards)) : handleShuffle(js)

SetFilter == \E m \in FilterModes : handleSetFilterMode(m)

Playback == togglePlayPause \/ handleReplay

Browser == DeliverTask \/ AutoplayStarted \/ AudioEnded

Next ==
    \/ Load
    \/ handleFlip
    \/ Navigate
    \/ Toggle
    \/ Shuffle
    \/ SetFilter
    \/ handleToggleView
    \/ Playback
    \/ Browser

Spec == Init /\ [][Next]_vars

\* The list view just entered, over a session of MaxCards cards of different
\* ids, none learned or starred, whose autoplay was refused: nothing plays.
InitCatalog ==
    /\ cards = [k \in 1..MaxCards |-> Card(k, 1, FALSE, FALSE)]
    /\ currentFilteredIndex = 0
    /\ isFlipped = FALSE
    /\ isLoading = FALSE
    /\ error = FALSE
    /\ viewMode = "viewAll"
    /\ filterMode = "all"
    /\ isPlaying = FALSE
    /\ audioPaused = TRUE
    /\ playPromise = "none"
    /\ strayPaused = TRUE
    /\ tasks = <<>>
    /\ storageFails = FALSE
    /\ storageKind = "object"
    /\ storage = statusesToSave(cards)
    /\ nonBoolean = {}
    /\ currentlyPlayingId = 0
    /\ listPaused = [i \in Ids |-> TRUE]
    /\ listPending = {}
    /\ listTasks = <<>>

ListClick == \E id \in Ids : handlePlayPause(id)

ListBrowser ==
    \/ \E id \in Ids : ListPlaybackStarted(id)
    \/ \E id \in Ids : ListAudioEnded(id)
    \/ DeliverListTask

NextCatalog == ListClick \/ ListBrowser

SpecCatalog == InitCatalog /\ [][NextCatalog]_vars


\* ================================================================= claims
\* The filter predicates as the specification words them.
SatisfiesFilter(card, f) ==
    \/ f = "all"
    \/ f = "unlearned" /\ card.learned = FALSE
    \/ f = "learned" /\ card.learned = TRUE
    \/ f = "starred" /\ card.starred = TRUE

\* v is exactly the cards of cs that satisfy f, in the order they have in cs:
\* the k-th card of v is the k-th card of cs that satisfies f.
IsFilterOf(v, cs, f) ==
    LET sat == { i \in 1..Len(cs) : SatisfiesFilter(cs[i], f) }
    IN  /\ Len(v) = Cardinality(sat)
        /\ \A i \in sat : v[Cardinality({ j \in sat : j <= i })] = cs[i]

\* b holds the same cards as a, each as often, with the same flags.
Occurrences(q, x) == Cardinality({ i \in 1..Len(q) : q[i] = x })
IsPermutation(a, b) ==
    /\ Len(a) = Len(b)
    /\ \A i \in 1..Len(a) : Occurrences(a, a[i]) = Occurrences(b, a[i])

RECURSIVE advanceTimes(_, _, _)
advanceTimes(idx, len, n) ==
    IF n = 0 THEN idx ELSE advanceTimes(nextIndex(idx, len), len, n - 1)

\* C1: in every state, the View is empty or 0 <= Cursor < View.length.
C1_CursorInView ==
    \/ Len(filteredCards) = 0
    \/ (0 <= currentFilteredIndex /\ currentFilteredIndex < Len(filteredCards))

\* C2: for every filter, the View is exactly the cards of the Collection that
\* satisfy the filter's predicate, in Collection order; the View in use is the
\* one of the active filter.
C2_ViewIsFilter ==
    /\ \A f \in FilterModes : IsFilterOf(filteredCardsOf(cards, f), cards, f)
    /\ IsFilterOf(filteredCards, cards, filterMode)

C2_Witness ==
    /\ Len(cards) = 2
    /\ filterMode = "unlearned"
    /\ Len(filteredCards) = 1
    /\ filteredCards[1] = cards[2]

\* C3: every shuffle step, and the shuffle at the end of loading, yields a
\* Collection that is a permutation of the one it shuffled: the same cards,
\* each as often, flags unchanged.
C3_ShufflePermutes ==
    [][ /\ \A js \in ValidChoices(Len(cards)) :
              handleShuffle(js) => IsPermutation(cards, cards')
        /\ isLoading =>
              \A m \in Manifests, bm \in Mappings :
                 \A js \in ValidChoices(Len(initialCards(m, bm, savedStatuses))) :
                    LoadSuccess(m, bm, js) =>
                       IsPermutation(initialCards(m, bm, savedStatuses), cards') ]_vars

\* two cards, stored flags kept, in the order opposite to the identifiers'
C3_Witness ==
    /\ ~isLoading
    /\ Len(cards) = 2
    /\ cards[1].id = 2 /\ cards[2].id = 1
    /\ cards[1].learned /\ ~cards[2].learned
    /\ cards[2].starred

\* C4: with a non-empty View of length n, n advances forward bring the Cursor
\* back to where it was.
C4_AdvanceCycle ==
    Len(filteredCards) > 0 =>
        advanceTimes(currentFilteredIndex, Len(filteredCards), Len(filteredCards))
            = currentFilteredIndex

C6_FlipPausesNoResume ==
    [][ /\ (handleFlip /\ currentCard # NoCard) =>
              IF ~isFlipped
              THEN /\ isFlipped'
                   /\ audioPaused'
                   /\ playPromise' = "none"
                   /\ ~audioPaused =>
                         /\ Len(tasks') = Len(tasks) + 1
                         /\ tasks'[Len(tasks')] \in {"pause", "pauseReject"}
              ELSE /\ ~isFlipped'
                   /\ audioPaused' = audioPaused
                   /\ isPlaying' = isPlaying
                   /\ playPromise' = playPromise
                   /\ tasks' = tasks
        /\ (DeliverTask /\ Head(tasks) \in {"pause", "pauseReject"}) => ~isPlaying'
      ]_vars

\* the card shows its back, the <audio> that was playing is paused and its
\* pause event is on its way
C6_Witness ==
    /\ isFlipped
    /\ isPlaying
    /\ audioPaused
    /\ Len(tasks) > 0
    /\ tasks[Len(tasks)] = "pause"

\* C7: a load that yields no card ends in the 'no cards' state: loading over,
\* no error, empty Collection, no current card.
C7_EmptyLoadIsNoError ==
    [][ isLoading =>
          \A m \in Manifests, bm \in Mappings :
             (initialCards(m, bm, savedStatuses) = <<>> /\ LoadSuccess(m, bm, <<>>)) =>
                 /\ ~isLoading'
                 /\ ~error'
                 /\ cards' = <<>>
                 /\ currentCardOf(cards', filterMode', currentFilteredIndex') = NoCard
      ]_vars

C7_Witness ==
    /\ ~isLoading
    /\ ~error
    /\ cards = <<>>
    /\ currentCard = NoCard

\* C8: setting a filter other than the active one makes it the active filter,
\* makes the View the cards satisfying it in Collection order, and sets the
\* Cursor to 0.
C8_SetFilterResets ==
    [][ \A m \in FilterModes :
          (m # filterMode /\ handleSetFilterMode(m)) =>
              /\ filterMode' = m
              /\ cards' = cards
              /\ IsFilterOf(filteredCardsOf(cards', filterMode'), cards, m)
              /\ currentFilteredIndex' = 0
      ]_vars

\* filter starred over two cards of which only the second is starred
C8_Witness ==
    /\ filterMode = "starred"
    /\ Len(cards) = 2
    /\ filteredCards = <<cards[2]>>
    /\ currentFilteredIndex = 0
    /\ currentCard = cards[2]

\* C9: after toggleLearned or toggleStarred the Cursor is 0.
C9_ToggleResetsCursor ==
    [][ \A i \in Ids :
          (handleToggleLearned(i) \/ handleToggleStarred(i)) =>
              currentFilteredIndex' = 0
      ]_vars

PlayingAudios ==
    (IF strayPaused THEN {} ELSE {"stray"}) \cup (IF audioPaused THEN {} ELSE {"mounted"})

IsFullMapOf(st, cs) ==
    /\ \A x \in st, y \in st : x.id = y.id => x = y
    /\ { x.id : x \in st } = { cs[k].id : k \in 1..Len(cs) }
    /\ \A k \in 1..Len(cs) :
          \E x \in st : /\ x.id = cs[k].id
                        /\ x.learned = cs[k].learned
                        /\ x.starred = cs[k].starred

\* C12: with writes succeeding, every toggle on a non-empty Collection leaves
\* under the key the full map of the Collection as the toggle left it, and so
\* does every step that ends with cards loaded: nothing of an earlier write
\* outlasts a later one.
C12_WriteFollowsToggle ==
    [][ /\ \A i \in Ids :
              ((handleToggleLearned(i) \/ handleToggleStarred(i))
                  /\ Len(cards) > 0 /\ ~storageFails) =>
                  /\ storageKind' = "object"
                  /\ IsFullMapOf(storage', cards')
        /\ (~isLoading' /\ Len(cards') > 0 /\ ~storageFails') =>
              IsFullMapOf(storage', cards')
      ]_vars

\* a Cursor beyond the View of one card comes only from a toggle; the key
\* holds the flags as the toggles left them
C12_Witness ==
    /\ ~storageFails
    /\ Len(cards) = 2
    /\ Len(filteredCards) = 1
    /\ currentFilteredIndex = 1
    /\ IsFullMapOf(storage, cards)
    /\ \E k \in 1..2 : cards[k].learned /\ cards[k].starred

\* C13: where the write of the save effect throws, nothing gets stored, and
\* toggle, advance, setFilter and shuffle do to Collection, Cursor and Filter
\* what they do where it succeeds; the controls stay rendered, so no error is
\* set.
C13_WriteFailureHarmless ==
    [][ storageFails =>
          /\ storageFails'
          /\ storage' = storage
          /\ ControlsRendered => ControlsRendered'
          /\ \A i \in Ids :
                /\ handleToggleLearned(i) =>
                      /\ cards' = toggleLearnedIn(cards, i)
                      /\ currentFilteredIndex' = currentFilteredIndex
                      /\ filterMode' = filterMode
                /\ handleToggleStarred(i) =>
                      /\ cards' = toggleStarredIn(cards, i)
                      /\ currentFilteredIndex' = currentFilteredIndex
                      /\ filterMode' = filterMode
          /\ (handleNext /\ Len(filteredCards) > 0) =>
                /\ currentFilteredIndex' = nextIndex(currentFilteredIndex, Len(filteredCards))
                /\ cards' = cards /\ filterMode' = filterMode
          /\ (handlePrevious /\ Len(filteredCards) > 0) =>
                /\ currentFilteredIndex' =
                       previousIndex(currentFilteredIndex, Len(filteredCards))
                /\ cards' = cards /\ filterMode' = filterMode
          /\ \A m \in FilterModes :
                handleSetFilterMode(m) =>
                   /\ filterMode' = m
                   /\ currentFilteredIndex' = IF m = filterMode THEN currentFilteredIndex
                                                                ELSE 0
                   /\ cards' = cards
          /\ \A js \in ValidChoices(Len(cards)) :
                (handleShuffle(js) /\ Len(cards) > 1) =>
                   /\ cards' = shuffleArray(cards, js)
                   /\ currentFilteredIndex' = 0
                   /\ filterMode' = filterMode
      ]_vars

\* nothing could be stored, and the session went on: flags toggled, filter
\* set, Cursor advanced
C13_Witness ==
    /\ storageFails
    /\ storage = {}
    /\ ControlsRendered
    /\ Len(cards) = 2
    /\ cards[1].learned /\ cards[2].learned
    /\ filterMode = "learned"
    /\ currentFilteredIndex = 1

\* C14: a load that fails, and a load whose manifest is not an array of
\* strings or whose mapping is not a JSON object, ends with the error set and
\* an empty Collection; and whenever the error is set the Collection is empty.
C14_WrongShapeIsError ==
    [][ /\ \A manifestShape \in ManifestShapes, mappingShape \in MappingShapes :
              ((manifestShape # "strings" \/ mappingShape # "object")
                  /\ fetchAndInitialize(manifestShape, mappingShape)) =>
                  /\ ~isLoading'
                  /\ error'
                  /\ cards' = <<>>
        /\ LoadFailure => (~isLoading' /\ error' /\ cards' = <<>>)
        /\ error' => cards' = <<>>
      ]_vars

\* C15: the error is set by the catch of the load and by nothing else: not by
\* a refused autoplay, play or replay, not by a storage key that cannot be read
\* or parsed, not by a write that throws.  Once the controls are rendered they
\* stay rendered, and after a refused play the play control still acts on the
\* <audio>.
C15_ErrorOnlyFromLoad ==
    [][ /\ (error' # error) => (LoadFailure /\ error')
        /\ ControlsRendered => ControlsRendered'
        /\ isLoading =>
              \A manifestShape \in ManifestShapes, mappingShape \in MappingShapes :
                 (ShapesAccepted(manifestShape, mappingShape)
                     /\ fetchAndInitialize(manifestShape, mappingShape)) => ~error'
        /\ ((handleReplay \/ togglePlayPause) /\ AudioMounted) =>
              (~error' /\ StudyRendered' /\ AudioMounted')
        /\ AutoplayAttempted => (~error' /\ ControlsRendered')
      ]_vars

\* the storage can neither be read nor written, flags were toggled all the
\* same, and the current card's audio is not playing: the controls are there
C15_Witness ==
    /\ storageFails
    /\ storageKind = "unreadable"
    /\ ControlsRendered
    /\ AudioMounted
    /\ audioPaused
    /\ ~isPlaying
    /\ tasks = <<>>
    /\ currentFilteredIndex = 1
    /\ \E k \in 1..Len(cards) : cards[k].starred

\* What is under the storage key is absent or malformed: no item, an item
\* that cannot be read or parsed, a non-object, or an entry with a learned or
\* starred value that is not a boolean.
StoreMalformed == storageKind # "object" \/ nonBoolean # {}

FlagsAreBooleans(cs, marks) ==
    \A k \in 1..Len(cs) :
        <<cs[k].id, "learned">> \notin marks /\ <<cs[k].id, "starred">> \notin marks

\* C16: with an absent or malformed item under the key, a load whose fetches
\* succeed ends without the error and with every card neither learned nor
\* starred; and the flags of the cards are booleans after every step.
C16_MalformedStoreIsEmpty ==
    [][ /\ (isLoading /\ StoreMalformed) =>
              \A manifestShape \in ManifestShapes, mappingShape \in MappingShapes :
                 (ShapesAccepted(manifestShape, mappingShape)
                     /\ fetchAndInitialize(manifestShape, mappingShape)) =>
                     /\ ~isLoading'
                     /\ ~error'
                     /\ \A k \in 1..Len(cards') :
                           ~cards'[k].learned /\ ~cards'[k].starred
        /\ FlagsAreBooleans(cards', nonBoolean')
      ]_vars

\* card c carries the flags st holds for its id, and FALSE, FALSE if st has
\* no entry for the id
HasStoredFlags(c, st) ==
    IF \E x \in st : x.id = c.id
    THEN \E x \in st : x.id = c.id /\ x.learned = c.learned /\ x.starred = c.starred
    ELSE ~c.learned /\ ~c.starred

\* C17: a load gives every card the learned and starred of the entry the key
\* holds for its id (values that are no booleans included: they stay marked),
\* and FALSE, FALSE where there is no entry.  And whenever a session has
\* written, what a load reads from the key for the id of a card of the
\* Collection (savedStatus?.learned ?? false, savedStatus?.starred ?? false)
\* are the flags the card has there.
C17_FlagsRestored ==
    [][ /\ isLoading =>
              \A m \in Manifests, bm \in Mappings :
                 \A js \in ValidChoices(Len(initialCards(m, bm, savedStatuses))) :
                    LoadSuccess(m, bm, js) =>
                       /\ \A k \in 1..Len(cards') : HasStoredFlags(cards'[k], savedStatuses)
                       /\ \A p \in nonBoolean : HasCard(cards', p[1]) => p \in nonBoolean'
        /\ (~isLoading' /\ Len(cards') > 0 /\ ~storageFails') =>
              /\ storageKind' = "object"
              /\ \A j \in 1..Len(cards') :
                    /\ SavedLearned(storage', cards'[j].id) = cards'[j].learned
                    /\ SavedStarred(storage', cards'[j].id) = cards'[j].starred
      ]_vars

\* loaded with the flags the key held: the first card starred only, the second
\* learned only, nothing toggled off since (the marks of a non-boolean go with
\* the first toggle)
C17_Witness ==
    /\ ~isLoading
    /\ storageKind = "object"
    /\ Len(cards) = 2
    /\ cards[1].id # cards[2].id
    /\ cards[1].starred /\ ~cards[1].learned
    /\ cards[2].learned /\ ~cards[2].starred
    /\ IsFullMapOf(storage, cards)
    /\ currentFilteredIndex = 0
    /\ filterMode = "all"

\* C18: no two cards of the Collection have the same id.
C18_UniqueIds ==
    \A a \in 1..Len(cards), b \in 1..Len(cards) : cards[a].id = cards[b].id => a = b

\* C19: after a load whose fetches succeed, the Collection holds a card for
\* every item of the manifest whose identifier has a mapping entry (as many
\* cards of an id as the manifest has items of it) and none for an identifier
\* without entry; no error is set for the dropped ones.
C19_CardIffMapped ==
    [][ isLoading =>
          \A m \in Manifests, bm \in Mappings :
             \A js \in ValidChoices(Len(initialCards(m, bm, savedStatuses))) :
                LoadSuccess(m, bm, js) =>
                   /\ ~isLoading'
                   /\ ~error'
                   /\ \A i \in Ids :
                         Cardinality({ k \in 1..Len(cards') : cards'[k].id = i }) =
                            IF i \in bm
                            THEN Cardinality({ k \in 1..Len(m) : m[k] = i })
                            ELSE 0
      ]_vars

\* loaded without error with the one card of identifier 2, as from a manifest
\* of 1 and 2 and a mapping with an entry for 2 only
C19_Witness ==
    /\ ~isLoading
    /\ ~error
    /\ Len(cards) = 1
    /\ cards[1].id = 2
    /\ currentCard = cards[1]
    /\ viewMode = "study"

\* C20: in the list view, the search with an empty query and with a query of
\* blanks returns every card of the Collection, in the Collection's order.
C20_BlankQueryReturnsAll ==
    (ControlsRendered /\ viewMode = "viewAll") =>
        \A q \in Queries : \A r \in displayCards(q, cards) : r = cards

\* C22: with a non-empty view and the index within it, handleNext sets the
\* index to (index + 1) mod len and handlePrevious to (index - 1 + len) mod len,
\* and the opposite move from there leads back to the index; with an empty
\* view both leave every variable as it was.
C22_AdvanceModular ==
    [][ LET len == Len(filteredCards)
            idx == currentFilteredIndex
        IN  /\ (len > 0 /\ idx < len /\ handleNext) =>
                  /\ currentFilteredIndex' = (idx + 1) % len
                  /\ Len(filteredCards') = len
                  /\ previousIndex(currentFilteredIndex', len) = idx
            /\ (len > 0 /\ idx < len /\ handlePrevious) =>
                  /\ currentFilteredIndex' = (idx - 1 + len) % len
                  /\ Len(filteredCards') = len
                  /\ nextIndex(currentFilteredIndex', len) = idx
            /\ (len = 0 /\ (handleNext \/ handlePrevious)) => UNCHANGED vars
      ]_vars

\* An advance has moved the index off 0 in a view of two cards.
C22_Witness ==
    StudyRendered /\ Len(filteredCards) = 2 /\ currentFilteredIndex = 1

\* C23: in a view of at least two cards, after handleNext or handlePrevious
\* another card is current and shows its front face, and the audio of the card
\* before is stopped: every <audio> that left the page is paused, and the
\* mounted one plays only through the autoplay just started for the new card.
\* This holds whatever isFlipped and the audio were before the step.
C23_AdvanceShowsFrontAndStops ==
    [][ (Len(filteredCards) >= 2 /\ (handleNext \/ handlePrevious)) =>
            /\ currentCard' # currentCard
            /\ ~isFlipped'
            /\ strayPaused'
            /\ ~audioPaused' => playPromise' = "pending"
      ]_vars

\* After an advance to the second of two cards of different ids: front face,
\* the autoplay of the new card under way, the <audio> of the card before
\* paused with the callback of its interrupted autoplay still queued.
C23_Witness ==
    /\ StudyRendered /\ Len(filteredCards) = 2 /\ currentFilteredIndex = 1
    /\ filteredCards[1].id # filteredCards[2].id
    /\ ~isFlipped /\ ~audioPaused /\ playPromise = "pending" /\ strayPaused
    /\ Contains(tasks, "staleRejected")

\* C24: after handleSetFilterMode to another mode, and after handleShuffle of
\* two or more cards, the card at index 0 shows its front face and its playback
\* is reset as for a card that has just become current (stopped, or playing
\* only through an autoplay just started), also when the card at index 0 is
\* the card that was current before.
C24_FilterShuffleResetPlayback ==
    [][ ( \/ \E m \in FilterModes : m # filterMode /\ handleSetFilterMode(m)
          \/ Len(cards) >= 2 /\ Shuffle ) =>
            /\ currentFilteredIndex' = 0
            /\ ~isFlipped'
            /\ ~audioPaused' => playPromise' = "pending"
      ]_vars

\* C25: handleShuffle on two or more cards sets the index to 0 and leaves
\* filterMode and viewMode as they were; on no card or one card it changes
\* neither the cards, the index, the face shown nor filterMode.
C25_ShuffleFrame ==
    [][ Shuffle =>
          IF Len(cards) >= 2
          THEN /\ currentFilteredIndex' = 0
               /\ filterMode' = filterMode
               /\ viewMode' = viewMode
          ELSE UNCHANGED <<cards, currentFilteredIndex, isFlipped, filterMode>>
      ]_vars

\* Two cards under a filter other than all, in study mode, at index 0, with a
\* view that holds both.
C25_Witness ==
    /\ StudyRendered
    /\ Len(cards) = 2 /\ filterMode = "unlearned" /\ Len(filteredCards) = 2
    /\ currentFilteredIndex = 0 /\ ~isFlipped

\* C26: after handleToggleView, in either direction, the card is not flipped
\* and the playback state of the study card is not playing, also when the
\* audio was playing when the view was switched.
C26_ViewSwitchResets ==
    [][ handleToggleView => (~isFlipped' /\ ~isPlaying') ]_vars

\* C27: handleFlip, handleNext, handlePrevious, handleSetFilterMode,
\* handleToggleView and togglePlayPause leave the cards (which, in which order,
\* with which flags) and what is stored under the storage key as they were;
\* handleToggleView also leaves filterMode and the index as they were, and
\* handleFlip without a current card leaves every variable as it was.
C27_NoCollectionChange ==
    [][ /\ (handleFlip \/ Navigate \/ SetFilter \/ handleToggleView \/ togglePlayPause) =>
              UNCHANGED <<cards, storage, storageKind, nonBoolean>>
        /\ handleToggleView => UNCHANGED <<filterMode, currentFilteredIndex>>
        /\ (handleFlip /\ currentCard = NoCard) => UNCHANGED vars
      ]_vars

\* The list view, entered with a filter other than all and the index at 1.
C27_Witness ==
    /\ ControlsRendered /\ viewMode = "viewAll"
    /\ filterMode = "starred" /\ currentFilteredIndex = 1
    /\ Len(cards) = 2

\* C28: whenever a step in study mode makes another card current, one autoplay
\* is attempted for it.  Allowed by the browser, the <audio> plays with one
\* play event queued and the promise pending, and the delivery of the play
\* event or of the promise's resolution sets isPlaying; blocked, the <audio>
\* is paused, isPlaying is false, and the card with its play control stays
\* rendered without an error.
C28_AutoplayOnNewCard ==
    [][ /\ (StudyRendered' /\ currentCard' # currentCard /\ currentCard' # NoCard) =>
              /\ AutoplayAttempted
              /\ \/ /\ ~audioPaused' /\ playPromise' = "pending"
                    /\ Occurrences(tasks', "play") = 1
                    /\ tasks'[Len(tasks')] = "play"
                 \/ /\ audioPaused' /\ playPromise' = "none"
                    /\ ~isPlaying'
                    /\ AudioMounted' /\ ~error'
        /\ (DeliverTask /\ Head(tasks) \in {"play", "resolved"}) => isPlaying'
      ]_vars

\* The second of two cards has become current and its autoplay was blocked:
\* nothing plays, nothing is queued, the play control is there.
C28_Witness ==
    /\ StudyRendered /\ Len(filteredCards) = 2 /\ currentFilteredIndex = 1
    /\ AudioMounted /\ audioPaused /\ ~isPlaying /\ ~isFlipped
    /\ playPromise = "none" /\ tasks = <<>>

\* C29: a togglePlayPause that pauses or starts the <audio> leaves isPlaying at
\* the new state at once (false after the pause, true after the start), so
\* that a togglePlayPause right after it reads the new state.
C29_ToggleIsSynchronous ==
    [][ (togglePlayPause /\ audioPaused' # audioPaused) => isPlaying' = ~audioPaused'
      ]_vars

\* C30: handleToggleLearned / handleToggleStarred with an id that no card has
\* ends with CardNotFound, changes no card, and no setItem call follows.
C30_AbsentIdFails ==
    \A i \in Ids :
        (ControlsRendered /\ ~HasCard(cards, i)) =>
            /\ toggleOutcome(cards, i) = "CardNotFound"
            /\ toggleLearnedIn(cards, i) = cards
            /\ toggleStarredIn(cards, i) = cards
            /\ ~toggleCallsSetItem(isLoading, toggleLearnedIn(cards, i))
            /\ ~toggleCallsSetItem(isLoading, toggleStarredIn(cards, i))

\* C31: in study mode the then / catch of an autoplay promise that belongs to
\* a card shown before leaves isPlaying as it is for the card now current; and
\* whenever no audio callback is outstanding, isPlaying is true exactly when
\* the <audio> of the current card is playing.
C31_StaleCompletionIgnored ==
    /\ [][ (StudyRendered /\ DeliverTask
              /\ Head(tasks) \in {"staleResolved", "staleRejected"}) =>
                 isPlaying' = isPlaying ]_vars
    /\ []( (StudyRendered /\ tasks = <<>> /\ playPromise # "pending") =>
              (isPlaying <=> (AudioMounted /\ ~audioPaused)) )

\* C32: in every state in which the study card shows its back face, the
\* playback state is not playing (isPlaying is false), also when the flip came
\* while the autoplay was still pending and the autoplay completes after it.
C32_FlippedNotPlaying ==
    (StudyRendered /\ isFlipped) => ~isPlaying

C34_CursorNonNegative ==
    /\ [](currentFilteredIndex \in Nat)
    /\ [][ (Len(filteredCards) > 0 /\ (handleNext \/ handlePrevious)) =>
              /\ currentFilteredIndex' >= 0
              /\ currentFilteredIndex' < Len(filteredCards') ]_vars

\* A toggle has shrunk the view to one card and left the index behind it.
C34_Witness ==
    /\ StudyRendered /\ Len(cards) = 2
    /\ Len(filteredCards) = 1 /\ currentFilteredIndex = 1

\* C35: a toggle of learned for an id changes nothing but the learned flag of
\* the cards of that id, a toggle of starred nothing but their starred flag:
\* the other flag, the cards of other ids, the order, filterMode and viewMode
\* stay as they were.
C35_ToggleFrame ==
    [][ \A i \in Ids :
          /\ handleToggleLearned(i) =>
                /\ Len(cards') = Len(cards)
                /\ \A k \in 1..Len(cards) :
                      /\ cards'[k] = [cards[k] EXCEPT !.learned = cards'[k].learned]
                      /\ cards[k].id # i => cards'[k] = cards[k]
                /\ nonBoolean' \subseteq nonBoolean
                /\ (nonBoolean \ nonBoolean') \subseteq {<<i, "learned">>}
                /\ UNCHANGED <<filterMode, viewMode>>
          /\ handleToggleStarred(i) =>
                /\ Len(cards') = Len(cards)
                /\ \A k \in 1..Len(cards) :
                      /\ cards'[k] = [cards[k] EXCEPT !.starred = cards'[k].starred]
                      /\ cards[k].id # i => cards'[k] = cards[k]
                /\ nonBoolean' \subseteq nonBoolean
                /\ (nonBoolean \ nonBoolean') \subseteq {<<i, "starred">>}
                /\ UNCHANGED <<filterMode, viewMode>>
      ]_vars

\* In the list view under the filter starred: two cards of different ids, the
\* first learned and not starred, the second starred and not learned.
C35_Witness ==
    /\ ControlsRendered /\ viewMode = "viewAll" /\ filterMode = "starred"
    /\ Len(cards) = 2 /\ cards[1].id # cards[2].id
    /\ cards[1].learned /\ ~cards[1].starred
    /\ ~cards[2].learned /\ cards[2].starred

StoredKeys(st) == { x.id : x \in st }
CardIds(cs) == { cs[k].id : k \in 1..Len(cs) }

\* C36: with writes succeeding, the step that ends loading with cards already
\* leaves under the key an object whose keys are the ids of the cards, entries
\* of other ids gone; and whenever cards are loaded, the keys stored are the
\* ids of the cards.
C36_StoredKeysAreCardIds ==
    /\ [][ (isLoading /\ ~isLoading' /\ Len(cards') > 0 /\ ~storageFails) =>
              /\ storageKind' = "object"
              /\ StoredKeys(storage') = CardIds(cards')
              /\ \A x \in storage : ~HasCard(cards', x.id) => x.id \notin StoredKeys(storage')
         ]_vars
    /\ []( (~isLoading /\ Len(cards) > 0 /\ ~storageFails) =>
              (storageKind = "object" /\ StoredKeys(storage) = CardIds(cards)) )

\* One card, of id 1, its learned flag restored from the item; the item holds
\* the key 1 and no other.
C36_Witness ==
    /\ ControlsRendered /\ ~storageFails /\ storageKind = "object"
    /\ Len(cards) = 1 /\ cards[1].id = 1 /\ cards[1].learned
    /\ StoredKeys(storage) = {1}

\* C37: a step that ends with loading still in progress or with no cards,
\* the end of a failed load included, leaves what is stored under the key as
\* it was; and no step replaces what is stored by an empty map.
C37_NoWriteWhileLoadingOrEmpty ==
    [][ /\ (isLoading' \/ Len(cards') = 0) =>
              UNCHANGED <<storage, storageKind, nonBoolean>>
        /\ storage' # storage => storage' # {}
      ]_vars

\* The load has failed; the flags stored by an earlier session are still there.
C37_Witness ==
    /\ ~isLoading /\ error /\ Len(cards) = 0
    /\ storageKind = "object" /\ storage # {}

\* The players of the list whose audio is playing.
ListPlaying == { i \in Ids : ~listPaused[i] }

\* C38: in the list view at most one player is playing, and currentlyPlayingId,
\* when set, names a player that is playing, in every state that clicks on the
\* play buttons, promise completions and pause / ended events lead to.
C38_OneListAudio ==
    ListRendered =>
        /\ Cardinality(ListPlaying) <= 1
        /\ currentlyPlayingId # 0 => currentlyPlayingId \in ListPlaying

====
